---- MODULE Spec2Model ----
(***************************************************************************)
(* State-machine model of the Solana trading bot: the gRPC feed task       *)
(* (src/src/grpc_stream.rs), the bounded mpsc channel between the feed     *)
(* task and the Trading Loop, the Trading Loop itself (src/src/trader.rs)  *)
(* and the select! in main (src/src/main.rs).                              *)
(*                                                                         *)
(* Number representation.  f64 values are kept in fixed point:             *)
(*   prices, spreads and P&L in units of 10^-4 USDC,                       *)
(*   sizes in units of 10^-6,                                              *)
(*   model parameters and the logit z in tenths,                           *)
(*   probabilities in units of 10^-4.                                      *)
(* The sample buffers are chosen so that every division the code performs  *)
(* is exact in these units.                                                *)
(***************************************************************************)
EXTENDS Integers, Sequences, FiniteSets, TLC

\* Option<T>: None is the empty sequence, Some(x) the sequence of x alone.
None == <<>>
Some(x) == <<x>>

(***************************************************************************)
(* Bounds of the model.                                                    *)
(***************************************************************************)
\* Fills the feed may decode and emit in one run.
MaxEvents == 4
\* Skipped stream items (decode failure, error item, ping) that are counted.
MaxSkips == 2
\* Capacity of the mpsc channel; grpc_stream.rs:99 uses 4096.
ChannelCap == 2
\* Batch threshold of the retrain check; trader.rs:93 uses 500.
BatchThreshold == 2
\* Minimum sample count of train_model; trader.rs:109 uses 10.
MinSamples == 2

(***************************************************************************)
(* Program constants.                                                      *)
(***************************************************************************)
HEADER_LEN == 5 + 8 + 4 + 4 + 4 + 4
NODE_SIZE == 88
\* 0.0001 USDC per price lot, in units of 10^-4 USDC.
PRICE_LOT_MULT == 1
\* Strategy::new(model, 0.55), in units of 10^-4.
Threshold == 5500
\* 1.0, in units of 10^-4.
One == 10000
\* cfg.trade_amount.unwrap_or(1.0)
DefaultTradeAmount == 1
\* Array2::from_shape_vec((n, 3), x): the features price, size and spread.
FeatureCount == 3

SOL_USDC_EVENT_QUEUE == "HxTJgEMDh8Jo6CQwwht6v7qAbKLFXrrHWEM5E9MJ4tSE"
SOL_USDC_BIDS == "9krN9TPCvQhTWZAxkVtxDC6VqeoLyzmKcqJxw5jZA7Ve"
SOL_USDC_ASKS == "EpGvXiuQgmEYBLETymFczwa3oYuoFkyeDXovvrSM7g1D"

(***************************************************************************)
(* Little-endian reads (byteorder::LittleEndian).  A buffer is a sequence  *)
(* of bytes; Rust offsets are 0-based, sequence indices 1-based.           *)
(***************************************************************************)
RECURSIVE LittleEndian(_)
LittleEndian(bytes) ==
    IF bytes = <<>> THEN 0 ELSE Head(bytes) + 256 * LittleEndian(Tail(bytes))

read_u32(raw, off) == LittleEndian(SubSeq(raw, off + 1, off + 4))
read_u64(raw, off) == LittleEndian(SubSeq(raw, off + 1, off + 8))

\* flags & mask != 0 for a one-bit mask.
BitSet(flags, mask) == (flags \div mask) % 2 = 1

\* Mutant of last_idx: the slot after the last written one.
last_idx_next(head, count, capacity) == (head + count) % capacity

\* let last_idx = (head + count - 1) % capacity;
last_idx(head, count, capacity) == (head + count - 1) % capacity

\* Mutant of fill_flag: the second bit is tested.
fill_flag_bit1(flags) == BitSet(flags, 2)

\* let fill_flag = flags & 0x1 != 0;
fill_flag(flags) == BitSet(flags, 1)

(***************************************************************************)
(* decode_last_fill: the most recent Fill of the event queue, or None.     *)
(* price = qty_paid / qty_received / 10^6 USDC = qty_paid / (100 *         *)
(* qty_received) in units of 10^-4; size = qty_received / 10^6.            *)
(***************************************************************************)
decode_last_fill(raw) ==
    IF Len(raw) < HEADER_LEN THEN None
    ELSE
      LET head == read_u32(raw, 8)
          count == read_u32(raw, 16)
          capacity == (Len(raw) - HEADER_LEN) \div NODE_SIZE
      IN IF capacity = 0 \/ count = 0 THEN None
         ELSE
           LET node_off == HEADER_LEN + last_idx(head, count, capacity) * NODE_SIZE
           IN IF node_off + NODE_SIZE > Len(raw) THEN None
              ELSE
                LET node == SubSeq(raw, node_off + 1, node_off + NODE_SIZE)
                    flags == node[1]
                    qty_paid == read_u64(node, 16)
                    qty_received == read_u64(node, 8)
                IN IF ~fill_flag(flags) THEN None
                   ELSE IF qty_received = 0 THEN None
                   ELSE Some([price |-> qty_paid \div (100 * qty_received),
                              size |-> qty_received,
                              side |-> IF BitSet(flags, 4) THEN "bid" ELSE "ask"])

\* The slices decode_last_fill indexes on `raw`, each as <<start, end>> of
\* raw[start..end]; the reads inside the node are given in offsets of raw.
decode_last_fill_reads(raw) ==
    IF Len(raw) < HEADER_LEN THEN {}
    ELSE
      LET head == read_u32(raw, 8)
          count == read_u32(raw, 16)
          capacity == (Len(raw) - HEADER_LEN) \div NODE_SIZE
          header_reads == {<<8, 12>>, <<16, 20>>}
      IN IF capacity = 0 \/ count = 0 THEN header_reads
         ELSE
           LET node_off == HEADER_LEN + last_idx(head, count, capacity) * NODE_SIZE
           IN IF node_off + NODE_SIZE > Len(raw) THEN header_reads
              ELSE header_reads \cup
                   { <<node_off, node_off + NODE_SIZE>>,
                     <<node_off, node_off + 1>> } \cup
                   ( IF fill_flag(raw[node_off + 1])
                     THEN {<<node_off + 16, node_off + 24>>,
                           <<node_off + 8, node_off + 16>>}
                     ELSE {} )

\* Mutant of decode_best_price: the length is not looked at and the bytes
\* that are there are read.
decode_best_price_unchecked(raw, is_bid) ==
    LET price_lots == LittleEndian(raw)
    IN IF price_lots = 0 THEN None ELSE Some(price_lots * PRICE_LOT_MULT)

(***************************************************************************)
(* decode_best_price: the leading price lot of a book-side account.        *)
(***************************************************************************)
decode_best_price(raw, is_bid) ==
    IF Len(raw) < 8 THEN None
    ELSE LET price_lots == read_u64(raw, 0)
         IN IF price_lots = 0 THEN None ELSE Some(price_lots * PRICE_LOT_MULT)

\* The slices decode_best_price indexes on `raw`.
decode_best_price_reads(raw) == IF Len(raw) < 8 THEN {} ELSE {<<0, 8>>}

(***************************************************************************)
(* Sample account buffers the feed delivers.                               *)
(***************************************************************************)
Zeros(n) == [k \in 1..n |-> 0]
\* v < 2^24 written little-endian on n >= 3 bytes.
Bytes(v, n) == [k \in 1..n |-> IF k <= 3 THEN (v \div (256 ^ (k - 1))) % 256 ELSE 0]
Header(head, count) ==
    Zeros(8) \o Bytes(head, 4) \o Zeros(4) \o Bytes(count, 4) \o Zeros(9)
Node(flags, released, paid) ==
    <<flags>> \o Zeros(7) \o Bytes(released, 8) \o Bytes(paid, 8) \o Zeros(64)

\* One slot holding a bid-side fill of the given price (units of 10^-4 USDC).
FillBuf(price) == Header(0, 1) \o Node(5, 1, 100 * price)
\* Two slots, head = 1 and count = 2: the last written record is slot 0, an
\* ask-side fill of the given price.
WrapBuf(price) == Header(1, 2) \o Node(1, 1, 100 * price) \o Node(1, 1, 700)

EventQueueSamples ==
    {FillBuf(1), WrapBuf(2)} \cup
    { Zeros(HEADER_LEN - 1),              \* shorter than the header
      Header(0, 0) \o Node(1, 1, 100),    \* count = 0
      Header(0, 1) \o Node(4, 1, 100),    \* fill flag unset
      Header(0, 1) \o Node(1, 0, 100) }   \* qty_received = 0
BidSamples == {Bytes(3, 8), Bytes(0, 8), Zeros(7)}
AskSamples == {Bytes(5, 8), Bytes(0, 8), Zeros(7)}

(***************************************************************************)
(* Signal Model (src/src/model.rs) and Strategy (src/src/strategy.rs).     *)
(***************************************************************************)
\* 1 / (1 + exp(-z)) for z in tenths, in units of 10^-4.  Beyond +-0.4 the
\* value is represented by the one at +-0.5: all of them lie on the same side
\* of both thresholds.
Sigmoid(z) ==
    CASE z = 0 -> 5000
      [] z = 1 -> 5250
      [] z = 2 -> 5498
      [] z = 3 -> 5744
      [] z = 4 -> 5987
      [] z >= 5 -> 6225
      [] z = -1 -> 4750
      [] z = -2 -> 4502
      [] z = -3 -> 4256
      [] z = -4 -> 4013
      [] z <= -5 -> 3775

\* weights.iter().zip(features).map(|(w, x)| w * x).sum()
RECURSIVE Dot(_, _)
Dot(weights, features) ==
    IF weights = <<>> \/ features = <<>> THEN 0
    ELSE Head(weights) * Head(features) + Dot(Tail(weights), Tail(features))

\* MlModel::predict
predict(params, features) ==
    IF params = <<>> THEN 5000
    ELSE Sigmoid(Head(params) + Dot(Tail(params), features))

\* Mutant of signal_of: the bounds of the dead zone are signals.
signal_of_inclusive(prob) ==
    IF prob >= Threshold THEN Some("Buy")
    ELSE IF prob <= One - Threshold THEN Some("Sell")
    ELSE None

\* The comparisons of Strategy::generate_signal on the probability.
signal_of(prob) ==
    IF prob > Threshold THEN Some("Buy")
    ELSE IF prob < One - Threshold THEN Some("Sell")
    ELSE None

\* Strategy::generate_signal
generate_signal(params, features) == signal_of(predict(params, features))

\* MlModel::load: what the model file can hold at startup.  A missing file
\* gives the zero vector; an existing file gives whatever was serialized.
ZeroParams == <<0, 0, 0>>
\* A model file holding <<-9, 6, 0>> gives Sell at price 1 (z = -0.3) and Buy
\* at price 2 (z = 0.3).

\* Mutant of load: a missing file gives a model with a negative bias.
load_biased(file) == IF file = None THEN <<-3, 0, 0>> ELSE file[1]

\* MlModel::load of a readable file or of a missing one.
load(file) == IF file = None THEN ZeroParams ELSE file[1]

\* MlModel::train: model.params().to_vec() of a fit on an (n, 3) matrix.
TrainedParams == {<<-3, 0, 0>>, <<0, 1, 1>>}

(***************************************************************************)
(* Pure steps of Trader::handle_trade (src/src/trader.rs).                 *)
(***************************************************************************)
\* let features = vec![trade.price, trade.size, trade.spread];
features_of(trade) == <<trade.price, trade.size, trade.spread>>

\* Mutant of label_of: equal prices count as a rise.
label_of_ge(price, prev_price) == IF price >= prev_price THEN 1 ELSE 0

\* let label = if trade.price > prev_price { 1.0 } else { 0.0 };
label_of(price, prev_price) == IF price > prev_price THEN 1 ELSE 0

\* Mutant of push_observation: the new observation replaces the dataset.
push_observation_replace(ds, prev_feat, prev_price, trade) ==
    IF prev_feat # None /\ prev_price # None
    THEN <<<<prev_feat[1], label_of(trade.price, prev_price[1])>>>>
    ELSE ds

\* The observation pushed when a previous trade exists.
push_observation(ds, prev_feat, prev_price, trade) ==
    IF prev_feat # None /\ prev_price # None
    THEN Append(ds, <<prev_feat[1], label_of(trade.price, prev_price[1])>>)
    ELSE ds

\* Mutant of retrain_due: the mode is not looked at.
retrain_due_any_mode(paper, len, trained) == len - trained >= BatchThreshold

\* if self.paper_mode && self.dataset.lock().await.len() - self.last_trained >= 500
retrain_due(paper, len, trained) == paper /\ len - trained >= BatchThreshold

\* if data.len() < 10 { return Ok(()); }
too_few_samples(n) == n < MinSamples

\* cfg.anchor_cluster.contains("devnet") || cfg.anchor_program_id.is_empty()
paper_mode_of(devnet, program_id_empty) == devnet \/ program_id_empty

\* Mutant of pnl_delta: a Buy is booked like a Sell.
pnl_delta_unsigned(side, amount, price) == amount * price

\* *pnl += if side == OrderSide::Buy { -amount * price } else { amount * price }
pnl_delta(side, amount, price) ==
    IF side = "Buy" THEN -(amount * price) ELSE amount * price

\* Mutant of order_due: the mode is not looked at.
order_due_any_mode(paper, side) == side # None

\* if let Some(side) = ... { if !self.paper_mode { self.execute_order(..) } }
order_due(paper, side) == side # None /\ ~paper

\* Mutant of stream_ended: the stream ends with the sender, whatever is queued.
stream_ended_early(q, feed) == feed = "done"

\* stream.next() on the receiver: None once the channel is empty and the
\* sender is dropped.
stream_ended(q, feed) == q = <<>> /\ feed = "done"

\* Mutant of stream_next: the newest buffered message is taken first.
stream_next_newest(q) == q[Len(q)]

\* stream.next() on the receiver: the oldest buffered message.
stream_next(q) == Head(q)

\* Mutant of spread_of: the difference is taken the other way round.
spread_of_reversed(bid, ask) ==
    IF bid # None /\ ask # None THEN bid[1] - ask[1] ELSE 0

\* spread_now of GrpcStream::connect
spread_of(bid, ask) == IF bid # None /\ ask # None THEN ask[1] - bid[1] ELSE 0

\* Mutant of signal_model: the signal is computed before the retrain.
signal_model_stale(before, after) == before

\* The model generate_signal uses at trader.rs:97: the Strategy as it is once
\* the retrain check of trader.rs:93-95 is done, `before` being the Strategy
\* on entry to handle_trade and `after` the one train_model left.
signal_model(before, after) == after

(***************************************************************************)
(* Lock and call events of the trader, in program order.  A MutexGuard     *)
(* that is a temporary of one statement (or of an `if` condition) is       *)
(* dropped when that statement (condition) is done.                        *)
(***************************************************************************)
Ev(op, on) == [op |-> op, on |-> on]
\* x.lock().await.<one read or write>; the guard is a temporary.
Locked(l) == <<Ev("lock", l), Ev("unlock", l)>>
\* An awaited call.
Called(c) == <<Ev("call", c)>>

\* self.dataset.lock().await.push((prev_feat, label)), when a previous trade
\* exists.
push_lock(has_prev) == IF has_prev THEN Locked("dataset") ELSE <<>>

\* Mutant of retrain_check_lock: the guard of the condition lives on into the
\* block, as that of an `if let` scrutinee would.
retrain_check_lock_held(paper) == IF paper THEN <<Ev("lock", "dataset")>> ELSE <<>>

\* self.paper_mode && self.dataset.lock().await.len() - .. >= 500: the lock is
\* taken only when paper_mode holds, and dropped with the condition.
retrain_check_lock(paper) == IF paper THEN Locked("dataset") ELSE <<>>

\* Trader::train_model: the snapshot under the lock, then train and save.
train_model_events(res) ==
    Locked("dataset") \o
    (IF res = "skipped" THEN <<>>
     ELSE Called("train") \o (IF res = "err_train" THEN <<>> ELSE Called("save")))

\* Trader::execute_order up to the sleep of wait_for_confirmation.
execute_order_events(q, sw) ==
    Called("quote") \o
    (IF q # "ok" THEN <<>>
     ELSE Called("swap") \o
          (IF sw # "ok" THEN <<>> ELSE Called("wait_for_confirmation")))

\* Trader::handle_trade with the calls it makes.
handle_trade_events(has_prev, paper, due, res, order, q, sw) ==
    push_lock(has_prev) \o retrain_check_lock(paper) \o
    (IF due THEN train_model_events(res) ELSE <<>>) \o
    (IF order THEN execute_order_events(q, sw) ELSE <<>>)

\* let mut pnl = self.pnl.lock().await; *pnl += ..; the guard is dropped when
\* execute_order returns.
pnl_update_events == Locked("pnl")

\* log::info!("Final PnL: {}", *self.pnl.lock().await)
shutdown_events == Locked("pnl")

(***************************************************************************)
(* Trader::train_model on the snapshot `data`.  fit and save are the       *)
(* results of MlModel::train and MlModel::save, fitted the parameters a    *)
(* successful fit returns.  The result names what the Strategy, the        *)
(* checkpoint and the model file hold afterwards.  MlModel::save is        *)
(* bincode::serialize followed by fs::write, which creates or truncates    *)
(* the file and then writes: a save that fails leaves the file as it was   *)
(* ("err") or cut short ("err_partial").                                   *)
(***************************************************************************)
\* The contents of a model file whose write did not complete.  No model
\* deserializes from it, and no run starts from it here.
Truncated == <<>>

\* Mutant of train_model: the Strategy is replaced and last_trained advanced
\* before the model is saved.
train_model_before_save(data, cur_params, cur_trained, cur_file, fit, save, fitted) ==
    LET n == Len(data)
        same == [params |-> cur_params, last_trained |-> cur_trained,
                 file |-> cur_file, n |-> n]
    IN IF too_few_samples(n) THEN [res |-> "skipped"] @@ same
       ELSE IF fit = "err" THEN [res |-> "err_train"] @@ same
       ELSE IF save = "err" THEN [res |-> "err_save", params |-> fitted,
                                  last_trained |-> n, file |-> cur_file, n |-> n]
       ELSE IF save = "err_partial"
            THEN [res |-> "err_save", params |-> fitted, last_trained |-> n,
                  file |-> Some(Truncated), n |-> n]
       ELSE [res |-> "ok", params |-> fitted, last_trained |-> n,
             file |-> Some(fitted), n |-> n]

train_model(data, cur_params, cur_trained, cur_file, fit, save, fitted) ==
    LET n == Len(data)
        same == [params |-> cur_params, last_trained |-> cur_trained,
                 file |-> cur_file, n |-> n]
    IN IF too_few_samples(n) THEN [res |-> "skipped"] @@ same
       ELSE IF fit = "err" THEN [res |-> "err_train"] @@ same
       ELSE IF save = "err" THEN [res |-> "err_save"] @@ same
       ELSE IF save = "err_partial"
            THEN [res |-> "err_save", params |-> cur_params,
                  last_trained |-> cur_trained, file |-> Some(Truncated),
                  n |-> n]
       ELSE [res |-> "ok", params |-> fitted, last_trained |-> n,
             file |-> Some(fitted), n |-> n]

(***************************************************************************)
(* Results the fallible calls can return.  MlModel::train (linfa fit) and  *)
(* MlModel::save (fs::write) can fail.  SwapClient::quote, SwapClient::swap *)
(* and wait_for_confirmation are stubs that return Ok in src/; their type   *)
(* is Result, and Fallible lets them fail as a real client would.           *)
(***************************************************************************)
Results == {"ok", "err"}
\* MlModel::save: Ok, or an error before or after the file was truncated.
SaveResults == {"ok", "err", "err_partial"}
Stub == [quote |-> {"ok"}, swap |-> {"ok"}, confirm |-> {"ok"}]
Fallible == [quote |-> Results, swap |-> Results, confirm |-> Results]

(***************************************************************************)
(* Items of the multiplexed gRPC stream.                                   *)
(***************************************************************************)
Account(pk, data) == [tag |-> "account", pubkey |-> pk, data |-> data]
StreamItems ==
    {Account(SOL_USDC_EVENT_QUEUE, d) : d \in EventQueueSamples} \cup
    {Account(SOL_USDC_BIDS, d) : d \in BidSamples} \cup
    {Account(SOL_USDC_ASKS, d) : d \in AskSamples} \cup
    { Account("other", Bytes(3, 8)),       \* an account of no interest
      [tag |-> "ping"],                    \* an update that is no account update
      [tag |-> "err"] }                    \* Some(Err(status))

(***************************************************************************)
(* State.                                                                  *)
(***************************************************************************)
VARIABLES
    mpc,            \* main: "select", "shutdown", "exit_ok", "exit_err"
    tpc,            \* Trader::run: "connect", "next", "confirm", "ended"
    run_result,     \* "running", then "ok", "cancelled" or the error run ended by
    fpc,            \* feed task: "unspawned", "subscribe", "next", "send", "done"
    best_bid,       \* feed task local
    best_ask,       \* feed task local
    pending,        \* the TradeMsg a suspended tx.send holds, or None
    queue,          \* messages buffered in the mpsc channel
    rx_alive,       \* the receiver (the stream run polls) exists
    paper_mode,     \* Trader fields
    trade_amount,
    params,         \* self.strategy.model.params
    model_file,     \* contents of cfg.model_path, None when the file is missing
    dataset,
    last_features,
    last_price,
    last_trained,
    pnl,
    exec,           \* the latest execute_order call and the results of its calls
    reported,       \* the P&L shutdown logged, or None
    clock,          \* fills decoded so far (the ts of the next TradeMsg)
    skips,          \* history: stream items skipped so far, up to MaxSkips
    emit_skips,     \* history: a fill was decoded after MaxSkips skipped items
    accepted,       \* history: messages the channel accepted, in order
    handled,        \* history: messages handle_trade was called with, in order
    retrains,       \* history: the train_model calls, in order
    seen_bid,       \* history: the latest bid-side price a stream item carried
    seen_ask,       \* history: the latest ask-side price a stream item carried
    last_signal,    \* history: what generate_signal last returned to handle_trade
    lock_log,       \* history: lock and call events of the latest trader step
    upc,            \* decoder and strategy calls: "off", "call_*" or "ret_*"
    input,          \* the argument of the call
    ret             \* what the call returned

feed_vars == <<fpc, best_bid, best_ask, pending, clock, skips, emit_skips,
              seen_bid, seen_ask>>
trader_vars == <<paper_mode, trade_amount, params, model_file, dataset,
                 last_features, last_price, last_trained, pnl, exec,
                 handled, retrains, last_signal, lock_log>>
unit_vars == <<upc, input, ret>>
vars == <<mpc, tpc, run_result, queue, rx_alive, reported, accepted,
          feed_vars, trader_vars, unit_vars>>

\* Option::unwrap_or
unwrap_or(opt, default) == IF opt = None THEN default ELSE opt[1]

\* The configurations and model files the runs start from.
Config(devnet, program_id_empty, amount, file) ==
    [devnet |-> devnet, program_id_empty |-> program_id_empty,
     trade_amount |-> amount, model_file |-> file]
Configs ==
    { Config(TRUE, FALSE, None, None),
      Config(FALSE, TRUE, None, Some(<<-9, 6, 0>>)),
      Config(FALSE, FALSE, None, None),
      Config(FALSE, FALSE, Some(2), Some(<<-9, 6, 0>>)) }

\* Trader::new succeeded: the state main enters select! with.
InitState ==
    /\ mpc = "select"
    /\ tpc = "connect"
    /\ run_result = "running"
    /\ fpc = "unspawned"
    /\ best_bid = None
    /\ best_ask = None
    /\ pending = None
    /\ queue = <<>>
    /\ rx_alive = FALSE
    /\ \E cfg \in Configs :
          /\ paper_mode = paper_mode_of(cfg.devnet, cfg.program_id_empty)
          /\ trade_amount = unwrap_or(cfg.trade_amount, DefaultTradeAmount)
          /\ model_file = cfg.model_file
    /\ params = load(model_file)
    /\ dataset = <<>>
    /\ last_features = None
    /\ last_price = None
    /\ last_trained = 0
    /\ pnl = 0
    /\ exec = None
    /\ reported = None
    /\ clock = 0
    /\ skips = 0
    /\ emit_skips = FALSE
    /\ accepted = <<>>
    /\ handled = <<>>
    /\ retrains = <<>>
    /\ seen_bid = None
    /\ seen_ask = None
    /\ last_signal = None
    /\ lock_log = <<>>

\* A run of the program: no decoder or strategy call is made on its own.
Init ==
    /\ InitState
    /\ upc = "off"
    /\ input = <<>>
    /\ ret = None

\* The tokio runtime lives until main returns; then every task is gone.
ProcessAlive == mpc \in {"select", "shutdown"}

(***************************************************************************)
(* The feed task spawned by GrpcStream::connect.                           *)
(***************************************************************************)
\* Mutant of on_update: the ask branch stores its price in best_bid.
on_update_ask_into_bid(item, bid, ask) ==
    LET keep == [fill |-> None, bid |-> bid, ask |-> ask, skipped |-> TRUE]
    IN IF item.tag # "account" THEN keep
       ELSE IF item.pubkey = SOL_USDC_EVENT_QUEUE THEN
              LET f == decode_last_fill(item.data)
              IN IF f = None THEN keep
                 ELSE [fill |-> f, bid |-> bid, ask |-> ask, skipped |-> FALSE]
       ELSE IF item.pubkey = SOL_USDC_BIDS THEN
              LET p == decode_best_price(item.data, TRUE)
              IN IF p = None THEN keep
                 ELSE [fill |-> None, bid |-> p, ask |-> ask, skipped |-> FALSE]
       ELSE IF item.pubkey = SOL_USDC_ASKS THEN
              LET p == decode_best_price(item.data, FALSE)
              IN IF p = None THEN keep
                 ELSE [fill |-> None, bid |-> p, ask |-> ask, skipped |-> FALSE]
       ELSE keep

\* What one stream item does to the task's locals: the fill it decodes (or
\* None), the cached best prices afterwards, and whether the item was skipped.
on_update(item, bid, ask) ==
    LET keep == [fill |-> None, bid |-> bid, ask |-> ask, skipped |-> TRUE]
    IN IF item.tag # "account" THEN keep
       ELSE IF item.pubkey = SOL_USDC_EVENT_QUEUE THEN
              LET f == decode_last_fill(item.data)
              IN IF f = None THEN keep
                 ELSE [fill |-> f, bid |-> bid, ask |-> ask, skipped |-> FALSE]
       ELSE IF item.pubkey = SOL_USDC_BIDS THEN
              LET p == decode_best_price(item.data, TRUE)
              IN IF p = None THEN keep
                 ELSE [fill |-> None, bid |-> p, ask |-> ask, skipped |-> FALSE]
       ELSE IF item.pubkey = SOL_USDC_ASKS THEN
              LET p == decode_best_price(item.data, FALSE)
              IN IF p = None THEN keep
                 ELSE [fill |-> None, bid |-> bid, ask |-> p, skipped |-> FALSE]
       ELSE keep

\* TradeMsg { price, size, side, ts, spread: spread_now }
trade_msg(f, ts, bid, ask) ==
    [price |-> f[1].price, size |-> f[1].size, side |-> f[1].side, ts |-> ts,
     spread |-> spread_of(bid, ask)]

\* Mutant of send: try_send, which gives up on a full channel.
send_or_drop(q, alive) ==
    IF ~alive THEN "closed"
    ELSE IF Len(q) < ChannelCap THEN "sent"
    ELSE "closed"

\* tx.send(msg).await on the bounded channel: Err at once when the receiver is
\* gone, Ok at once when a slot is free, otherwise the task is suspended.
send(q, alive) ==
    IF ~alive THEN "closed"
    ELSE IF Len(q) < ChannelCap THEN "sent"
    ELSE "suspended"

\* Mutant of after_item: a skipped item breaks out of the loop.
after_item_break(r, out) ==
    IF r.skipped THEN "done"
    ELSE IF r.fill # None /\ out = "suspended" THEN "send" ELSE "next"

\* Where the loop body leaves the task: suspended in tx.send, or back at
\* stream.next() whatever the item was.
after_item(r, out) ==
    IF r.fill # None /\ out = "suspended" THEN "send" ELSE "next"

\* client.subscribe_once(sub_req).await
FeedSubscribe ==
    /\ ProcessAlive
    /\ fpc = "subscribe"
    /\ \E r \in Results : fpc' = IF r = "ok" THEN "next" ELSE "done"
    /\ UNCHANGED <<mpc, tpc, run_result, queue, rx_alive, reported, accepted,
                   best_bid, best_ask, pending, clock, skips, emit_skips,
                   seen_bid, seen_ask, trader_vars, unit_vars>>

\* One iteration of `while let Some(update_res) = stream.next().await` on the
\* stream item `item`.
FeedItem(item) ==
    /\ ProcessAlive
    /\ fpc = "next"
    /\ LET r == on_update(item, best_bid, best_ask)
           msg == trade_msg(r.fill, clock + 1, best_bid, best_ask)
           out == send(queue, rx_alive)
       IN /\ r.fill # None => clock < MaxEvents
          /\ best_bid' = r.bid
          /\ best_ask' = r.ask
          /\ fpc' = after_item(r, out)
          /\ IF r.fill = None
             THEN UNCHANGED <<pending, queue, accepted, clock>>
             ELSE /\ clock' = clock + 1
                  /\ pending' = IF out = "suspended" THEN Some(msg) ELSE None
                  /\ queue' = IF out = "sent" THEN Append(queue, msg) ELSE queue
                  /\ accepted' = IF out = "sent" THEN Append(accepted, msg)
                                 ELSE accepted
    /\ UNCHANGED <<mpc, tpc, run_result, rx_alive, reported, trader_vars,
                   unit_vars>>

\* The observer of skipped items: it counts them and notes a fill decoded
\* after MaxSkips of them.  It constrains nothing.
ObserveSkips(item) ==
    LET r == on_update(item, best_bid, best_ask)
    IN /\ skips' = IF r.skipped /\ skips < MaxSkips THEN skips + 1 ELSE skips
       /\ emit_skips' = (emit_skips \/ (r.fill # None /\ skips = MaxSkips))

\* The observer of the book sides: the latest price a bid-side and an ask-side
\* account update carried in its leading 8 bytes, whatever else the item did.
\* It constrains nothing.
ObserveBook(item) ==
    LET carries(pk) ==
          /\ item.tag = "account"
          /\ item.pubkey = pk
          /\ Len(item.data) >= 8
          /\ LittleEndian(SubSeq(item.data, 1, 8)) # 0
        lots == LittleEndian(SubSeq(item.data, 1, 8)) * PRICE_LOT_MULT
    IN /\ seen_bid' = IF carries(SOL_USDC_BIDS) THEN Some(lots) ELSE seen_bid
       /\ seen_ask' = IF carries(SOL_USDC_ASKS) THEN Some(lots) ELSE seen_ask

\* The suspended tx.send completes: a slot came free or the receiver is gone.
FeedSendResume ==
    /\ ProcessAlive
    /\ fpc = "send"
    /\ send(queue, rx_alive) # "suspended"
    /\ fpc' = "next"
    /\ pending' = None
    /\ queue' = IF send(queue, rx_alive) = "sent" THEN Append(queue, pending[1])
                ELSE queue
    /\ accepted' = IF send(queue, rx_alive) = "sent" THEN Append(accepted, pending[1])
                   ELSE accepted
    /\ UNCHANGED <<mpc, tpc, run_result, rx_alive, reported, best_bid,
                   best_ask, clock, skips, emit_skips, seen_bid, seen_ask,
                   trader_vars, unit_vars>>

\* stream.next() returns None: the loop and the task end, tx is dropped.
FeedStreamEnd ==
    /\ ProcessAlive
    /\ fpc = "next"
    /\ fpc' = "done"
    /\ UNCHANGED <<mpc, tpc, run_result, queue, rx_alive, reported, accepted,
                   best_bid, best_ask, pending, clock, skips, emit_skips,
                   seen_bid, seen_ask, trader_vars, unit_vars>>

(***************************************************************************)
(* Trader::run and main.                                                   *)
(***************************************************************************)
\* run returns `result`; its stream (the receiver) is dropped with it.  main's
\* select! takes the run branch: Ok goes on to shutdown, Err leaves main by `?`.
RunReturns(result) ==
    /\ tpc' = "ended"
    /\ run_result' = result
    /\ rx_alive' = FALSE
    /\ queue' = <<>>
    /\ mpc' = IF result = "ok" THEN "shutdown" ELSE "exit_err"

\* self.stream.connect().await?  On success the feed task is spawned and the
\* receiver returned.
Connect ==
    /\ mpc = "select"
    /\ tpc = "connect"
    /\ \E r \in Results :
         IF r = "ok"
         THEN /\ tpc' = "next"
              /\ fpc' = "subscribe"
              /\ rx_alive' = TRUE
              /\ UNCHANGED <<mpc, run_result, queue>>
         ELSE /\ RunReturns("err_connect")
              /\ UNCHANGED fpc
    /\ UNCHANGED <<reported, accepted, best_bid, best_ask, pending, clock,
                   skips, emit_skips, seen_bid, seen_ask, trader_vars,
                   unit_vars>>

\* stream.next() yields Some(trade) and handle_trade(trade) runs up to its
\* first suspension (the sleep of wait_for_confirmation) or to its return.
\* Each value handle_trade computes is bound once (\E over a singleton).
HandleTrade(env) ==
    /\ mpc = "select"
    /\ tpc = "next"
    /\ queue # <<>>
    /\ \E fit \in Results, save \in SaveResults, fitted \in TrainedParams,
          q \in env.quote, sw \in env.swap :
         \E trade \in {stream_next(queue)} :
         \E ds \in {push_observation(dataset, last_features, last_price, trade)} :
         \E due \in {retrain_due(paper_mode, Len(ds), last_trained)} :
         \E tr \in {IF due
                    THEN train_model(ds, params, last_trained, model_file,
                                     fit, save, fitted)
                    ELSE [res |-> "none", params |-> params,
                          last_trained |-> last_trained, file |-> model_file,
                          n |-> Len(ds)]} :
         \E features \in {features_of(trade)} :
         \E side \in {generate_signal(signal_model(params, tr.params), features)} :
         \E failed \in {tr.res \in {"err_train", "err_save"}} :
         \E order \in {~failed /\ order_due(paper_mode, side)} :
         LET call == [side |-> side[1], price |-> trade.price, quote |-> q,
                      swap |-> IF q = "ok" THEN sw ELSE "not_called",
                      confirm |-> IF q = "ok" /\ sw = "ok" THEN "pending"
                                  ELSE "not_called"]
         IN /\ handled' = Append(handled, trade)
            /\ dataset' = ds
            /\ last_features' = Some(features)
            /\ last_price' = Some(trade.price)
            /\ retrains' = IF due THEN Append(retrains, [n |-> tr.n, res |-> tr.res])
                           ELSE retrains
            /\ params' = tr.params
            /\ last_trained' = tr.last_trained
            /\ model_file' = tr.file
            /\ exec' = IF order THEN Some(call) ELSE exec
            /\ last_signal' = IF failed THEN last_signal ELSE Some(side)
            /\ lock_log' = handle_trade_events(
                               last_features # None /\ last_price # None,
                               paper_mode, due, tr.res, order, q, sw)
            /\ IF failed THEN RunReturns(tr.res)
               ELSE IF order /\ q = "err" THEN RunReturns("err_quote")
               ELSE IF order /\ sw = "err" THEN RunReturns("err_swap")
               ELSE /\ tpc' = IF order THEN "confirm" ELSE "next"
                    /\ queue' = Tail(queue)
                    /\ UNCHANGED <<mpc, run_result, rx_alive>>
    /\ UNCHANGED <<reported, accepted, feed_vars, paper_mode, trade_amount, pnl,
                   unit_vars>>

\* wait_for_confirmation returns; on Ok the P&L is updated and handle_trade
\* returns to the loop.
Confirm(env) ==
    /\ mpc = "select"
    /\ tpc = "confirm"
    /\ \E c \in env.confirm :
         /\ exec' = Some([exec[1] EXCEPT !.confirm = c])
         /\ lock_log' = IF c = "ok" THEN pnl_update_events ELSE <<>>
         /\ IF c = "ok"
            THEN /\ pnl' = pnl + pnl_delta(exec[1].side, trade_amount, exec[1].price)
                 /\ tpc' = "next"
                 /\ UNCHANGED <<mpc, run_result, rx_alive, queue>>
            ELSE /\ RunReturns("err_confirm")
                 /\ UNCHANGED pnl
    /\ UNCHANGED <<reported, accepted, feed_vars, paper_mode, trade_amount,
                   params, model_file, dataset, last_features, last_price,
                   last_trained, handled, retrains, last_signal, unit_vars>>

\* stream.next() yields None: the channel is empty and tx was dropped.
StreamEnd ==
    /\ mpc = "select"
    /\ tpc = "next"
    /\ stream_ended(queue, fpc)
    /\ RunReturns("ok")
    /\ UNCHANGED <<reported, accepted, feed_vars, trader_vars, unit_vars>>

\* signal::ctrl_c() completes first: select! drops the run future where it is
\* suspended, and with it the receiver.
CtrlC ==
    /\ mpc = "select"
    /\ mpc' = "shutdown"
    /\ tpc' = "ended"
    /\ run_result' = "cancelled"
    /\ rx_alive' = FALSE
    /\ queue' = <<>>
    /\ UNCHANGED <<reported, accepted, feed_vars, trader_vars, unit_vars>>

\* trader.shutdown().await; Ok(())
Shutdown ==
    /\ mpc = "shutdown"
    /\ reported' = Some(pnl)
    /\ mpc' = "exit_ok"
    /\ lock_log' = shutdown_events
    /\ UNCHANGED <<tpc, run_result, queue, rx_alive, accepted, feed_vars,
                   paper_mode, trade_amount, params, model_file, dataset,
                   last_features, last_price, last_trained, pnl, exec,
                   handled, retrains, last_signal, unit_vars>>

FeedControl == FeedSubscribe \/ FeedSendResume \/ FeedStreamEnd

FeedItems ==
    \E item \in StreamItems :
        FeedItem(item) /\ ObserveBook(item) /\ UNCHANGED <<skips, emit_skips>>

Feed == FeedControl \/ FeedItems

\* The collaborators as src/swap_client.rs and wait_for_confirmation are.
Next ==
    \/ Connect
    \/ HandleTrade(Stub)
    \/ Confirm(Stub)
    \/ StreamEnd
    \/ CtrlC
    \/ Shutdown
    \/ Feed

Spec == Init /\ [][Next]_vars

\* The collaborators as fallible network calls.
NextFallible ==
    \/ Connect
    \/ HandleTrade(Fallible)
    \/ Confirm(Fallible)
    \/ StreamEnd
    \/ CtrlC
    \/ Shutdown
    \/ Feed

SpecFallible == Init /\ [][NextFallible]_vars

\* The feed with the observer of skipped items, in front of one live trader.
InitFeed == Init /\ ~paper_mode /\ model_file # None

FeedItemsObserved ==
    \E item \in StreamItems :
        FeedItem(item) /\ ObserveSkips(item) /\ ObserveBook(item)

NextFeed ==
    \/ Connect
    \/ HandleTrade(Stub)
    \/ Confirm(Stub)
    \/ StreamEnd
    \/ CtrlC
    \/ Shutdown
    \/ FeedControl
    \/ FeedItemsObserved

SpecFeed == InitFeed /\ [][NextFeed]_vars

\* The feed with two bid prices, so that the latest decoded price differs from
\* the first, in front of a live trader started without a model file: such a
\* trader never reaches wait_for_confirmation.
BookItems ==
    {Account(SOL_USDC_EVENT_QUEUE, d) : d \in {FillBuf(1), Zeros(HEADER_LEN - 1)}} \cup
    {Account(SOL_USDC_BIDS, d) : d \in {Bytes(3, 8), Bytes(4, 8), Zeros(7)}} \cup
    {Account(SOL_USDC_ASKS, d) : d \in {Bytes(5, 8), Bytes(0, 8)}} \cup
    {[tag |-> "err"]}

InitBook == Init /\ ~paper_mode /\ model_file = None

FeedItemsBook ==
    \E item \in BookItems :
        FeedItem(item) /\ ObserveBook(item) /\ UNCHANGED <<skips, emit_skips>>

NextBook ==
    \/ Connect
    \/ HandleTrade(Stub)
    \/ StreamEnd
    \/ CtrlC
    \/ Shutdown
    \/ FeedControl
    \/ FeedItemsBook

SpecBook == InitBook /\ [][NextBook]_vars

(***************************************************************************)
(* The decoders and the comparisons of the Strategy, called on their own   *)
(* with arguments drawn from the sets below.                               *)
(***************************************************************************)
\* The records an event-queue buffer holds: flag byte, quantity released and
\* quantity paid.
NodeKinds == [flags : {0, 1, 4, 5}, released : {0, 1, 2}, paid : {200}]
NodeSeqs ==
    {<<>>} \cup {<<a>> : a \in NodeKinds} \cup {<<a, b>> : a, b \in NodeKinds}

\* Event-queue buffers at least as long as the header: head and count as the
\* header holds them (head also beyond the capacity), zero to two whole
\* records and possibly part of a further one.
FillInputs ==
    [head : {0, 1, 2, 3, 70001}, count : {0, 1, 2, 3}, nodes : NodeSeqs,
     tail : {0, NODE_SIZE - 1}]

RECURSIVE Nodes(_)
Nodes(ns) ==
    IF ns = <<>> THEN <<>>
    ELSE Node(Head(ns).flags, Head(ns).released, Head(ns).paid) \o Nodes(Tail(ns))

\* The buffer an element of FillInputs describes.
FillBuffer(in) == Header(in.head, in.count) \o Nodes(in.nodes) \o Zeros(in.tail)

\* Buffers shorter than the event-queue header: the leading byte given, the
\* others zero.
ShortInputs == [len : 0..(HEADER_LEN - 1), byte : {0, 1, 255}, is_bid : BOOLEAN]
ShortBuffer(in) == [k \in 1..in.len |-> IF k = 1 THEN in.byte ELSE 0]

\* Probabilities in units of 10^-4: every hundredth, and the neighbours of the
\* two bounds of the dead zone.
Probs == {100 * k : k \in 0..100} \cup {4499, 4501, 5499, 5501}

InitUnit ==
    /\ InitState
    /\ ~paper_mode
    /\ model_file = None
    /\ ret = None
    /\ \/ upc = "call_fill" /\ input \in FillInputs
       \/ upc = "call_short" /\ input \in ShortInputs
       \/ upc = "call_signal" /\ input \in Probs

\* decode_last_fill(&info.data) on an event-queue buffer.
CallDecodeLastFill ==
    /\ upc = "call_fill"
    /\ upc' = "ret_fill"
    /\ ret' = Some([fill |-> decode_last_fill(FillBuffer(input)),
                    reads |-> decode_last_fill_reads(FillBuffer(input)),
                    len |-> Len(FillBuffer(input))])
    /\ UNCHANGED <<mpc, tpc, run_result, queue, rx_alive, reported, accepted,
                   feed_vars, trader_vars, input>>

\* Both decoders on a buffer shorter than the event-queue header.
CallDecodersShort ==
    /\ upc = "call_short"
    /\ upc' = "ret_short"
    /\ ret' = Some([fill |-> decode_last_fill(ShortBuffer(input)),
                    price |-> decode_best_price(ShortBuffer(input), input.is_bid),
                    reads |-> decode_last_fill_reads(ShortBuffer(input)) \cup
                              decode_best_price_reads(ShortBuffer(input))])
    /\ UNCHANGED <<mpc, tpc, run_result, queue, rx_alive, reported, accepted,
                   feed_vars, trader_vars, input>>

\* The comparisons of generate_signal on a probability.
CallSignalOf ==
    /\ upc = "call_signal"
    /\ upc' = "ret_signal"
    /\ ret' = Some(signal_of(input))
    /\ UNCHANGED <<mpc, tpc, run_result, queue, rx_alive, reported, accepted,
                   feed_vars, trader_vars, input>>

NextUnit ==
    \/ CallDecodeLastFill
    \/ CallDecodersShort
    \/ CallSignalOf

SpecUnit == InitUnit /\ [][NextUnit]_vars

(***************************************************************************)
(* Properties.                                                             *)
(***************************************************************************)
Last(seq) == seq[Len(seq)]

\* C1 (Labeling): after n >= 1 handled events the dataset holds exactly n-1
\* observations in arrival order; the i-th pairs the features [price, size,
\* spread] of event i with 1 if price(i+1) > price(i) and 0 otherwise, equal
\* prices included.
Labeling ==
    /\ handled = <<>> => dataset = <<>>
    /\ handled # <<>> => Len(dataset) = Len(handled) - 1
    /\ \A i \in 1..Len(dataset) :
         /\ dataset[i][1] = <<handled[i].price, handled[i].size, handled[i].spread>>
         /\ handled[i + 1].price > handled[i].price => dataset[i][2] = 1
         /\ handled[i + 1].price <= handled[i].price => dataset[i][2] = 0

\* Three events with prices up, then down, then equal: labels 1, 0, 0.
LabelingWitness ==
    /\ Len(handled) = 4
    /\ <<handled[1].price, handled[2].price, handled[3].price, handled[4].price>>
         = <<1, 2, 1, 1>>
    /\ <<dataset[1][2], dataset[2][2], dataset[3][2]>> = <<1, 0, 0>>

\* C2 (Retrain trigger): in live mode train_model is never called; in paper
\* mode it is called exactly once each time the observations appended since
\* the last retrain reach the batch threshold, so the k-th call sees
\* k * BatchThreshold samples, never fewer than the minimum sample count.
RetrainTrigger ==
    /\ ~paper_mode => retrains = <<>>
    /\ paper_mode => Len(retrains) = Len(dataset) \div BatchThreshold
    /\ \A k \in 1..Len(retrains) :
         /\ retrains[k].n = k * BatchThreshold
         /\ retrains[k].n >= MinSamples
         /\ retrains[k].res # "skipped"
    /\ paper_mode => Len(dataset) - last_trained <= BatchThreshold

\* The retrain happened when the threshold was reached and has not happened
\* again one observation later.
RetrainTriggerWitness ==
    /\ paper_mode
    /\ retrains = <<[n |-> BatchThreshold, res |-> "ok"]>>
    /\ last_trained = BatchThreshold
    /\ Len(dataset) = BatchThreshold + 1

\* C3 (Errors are not fatal): an error raised while handling a trade event
\* does not end the Trading Loop or the process; only a startup error makes
\* main return an error.
HandlerErrors == {"err_train", "err_save", "err_quote", "err_swap", "err_confirm"}
HandlerErrorsNotFatal ==
    /\ run_result \notin HandlerErrors
    /\ mpc = "exit_err" => run_result = "err_connect"

\* C4 (Paper mode): in paper mode no quote, swap or confirmation call is ever
\* made and the P&L keeps its initial value 0.
PaperModeOnlyLogs ==
    paper_mode => /\ exec = None
                  /\ tpc # "confirm"
                  /\ pnl = 0

\* A paper-mode run in which the latest event produced a signal.
PaperModeWitness ==
    /\ paper_mode
    /\ handled # <<>>
    /\ generate_signal(params, features_of(Last(handled))) # None

\* C5 (Live P&L): the P&L changes only when wait_for_confirmation returns Ok
\* for an order whose quote and swap returned Ok, by exactly -amount*price for
\* Buy and +amount*price for Sell, price being that of the event whose signal
\* placed the order; an order whose quote, swap or confirmation fails leaves
\* it unchanged.
ExpectedDelta ==
    IF exec[1].side = "Buy" THEN 0 - trade_amount * Last(handled).price
    ELSE trade_amount * Last(handled).price
LivePnlStep ==
    /\ pnl' # pnl =>
         /\ ~paper_mode
         /\ tpc = "confirm"
         /\ exec[1].quote = "ok" /\ exec[1].swap = "ok" /\ exec'[1].confirm = "ok"
         /\ generate_signal(params, features_of(Last(handled))) = Some(exec[1].side)
         /\ exec[1].price = Last(handled).price
    /\ (tpc = "confirm" /\ tpc' = "next") => pnl' = pnl + ExpectedDelta
    /\ run_result' \in {"err_quote", "err_swap", "err_confirm"} => pnl' = pnl
LivePnl == [][LivePnlStep]_vars

\* One Buy of amount 2 at price 2 went through: the P&L is -4.
LivePnlWitness ==
    /\ exec # None
    /\ exec[1].confirm = "ok"
    /\ exec[1].side = "Buy"
    /\ trade_amount = 2
    /\ pnl = -4

\* The loop of Trader::run was entered: connect returned the stream.
LoopEntered == fpc # "unspawned"

\* C6 (Termination): the loop ends when the feed stream ends or the
\* cancellation signal arrives; every run that ends has its final P&L
\* reported by shutdown, and no trade event is handled after the report.
TerminationReports ==
    /\ (tpc = "ended" /\ LoopEntered) => run_result \in {"ok", "cancelled"}
    /\ (mpc \in {"exit_ok", "exit_err"} /\ LoopEntered) => reported = Some(pnl)
    /\ reported # None => tpc = "ended"

SendBlocksStep ==
    /\ (fpc # "send" /\ fpc' = "send") =>
         /\ rx_alive /\ Len(queue) = ChannelCap
         /\ queue' = queue
         /\ pending' # None /\ pending'[1].ts = clock'
    /\ (fpc = "send" /\ fpc' = "send") =>
         UNCHANGED <<pending, clock, best_bid, best_ask, accepted>>
    /\ (fpc = "send" /\ fpc' # "send") =>
         /\ fpc' = "next"
         /\ rx_alive => /\ Len(queue) < ChannelCap
                        /\ queue' = Append(queue, pending[1])
                        /\ accepted' = Append(accepted, pending[1])
AcceptedHandledOnce ==
    /\ Len(handled) <= Len(accepted)
    /\ \A i \in 1..Len(handled) : handled[i] = accepted[i]
    /\ \A i \in 1..Len(accepted) : accepted[i].ts > 0
    /\ \A i, j \in 1..Len(accepted) : i < j => accepted[i].ts < accepted[j].ts
    /\ rx_alive => accepted = handled \o queue
    /\ Len(dataset) = IF handled = <<>> THEN 0 ELSE Len(handled) - 1
    /\ \A i \in 1..Len(dataset) : dataset[i][1] = features_of(handled[i])

\* The producer is ahead of the consumer: two events are handled and the
\* queue is full again.
AcceptedHandledOnceWitness ==
    /\ Len(queue) = ChannelCap
    /\ rx_alive
    /\ Len(handled) = 2
    /\ Len(dataset) = 1

\* C9 (Skipped items): a stream item that is an error, is no account update or
\* fails to decode leaves the feed task at stream.next() with its state as it
\* was, however many came before; a fill decoded after such items is emitted
\* when the queue has room.
SkippedItemsStep ==
    /\ skips' > skips =>
         /\ fpc' = "next"
         /\ UNCHANGED <<queue, accepted, pending, clock, best_bid, best_ask>>
    /\ (skips > 0 /\ clock' > clock /\ rx_alive /\ Len(queue) < ChannelCap) =>
         /\ fpc' = "next"
         /\ Len(queue') = Len(queue) + 1
         /\ Last(queue').ts = clock'
         /\ accepted' = Append(accepted, Last(queue'))
SkippedItems == [][SkippedItemsStep]_vars

\* The first fill was decoded after MaxSkips skipped items and was accepted.
SkippedItemsWitness ==
    /\ emit_skips
    /\ skips = MaxSkips
    /\ clock = 1
    /\ Len(accepted) = 1

\* The run future is polled whenever it can make progress: its stream has an
\* item or has ended, or the confirmation sleep is over.
RunStep == HandleTrade(Stub) \/ Confirm(Stub) \/ StreamEnd
SpecLive == Init /\ [][Next]_vars /\ WF_vars(RunStep)

CancellationStep ==
    run_result = "cancelled" =>
        /\ handled' = handled
        /\ UNCHANGED <<fpc, clock, best_bid, best_ask, pending>>
CancellationStopsFeed == [][CancellationStep]_vars

\* What the spread of a fill decoded now has to be: the latest ask-side price
\* seen minus the latest bid-side price seen, 0 while either is missing.
SeenSpread ==
    IF seen_bid # None /\ seen_ask # None THEN seen_ask[1] - seen_bid[1] ELSE 0

\* C12 (Spread): every emitted TradeEvent carries the last successfully
\* decoded best ask minus the last successfully decoded best bid, as they are
\* when the event-queue update is handled, and 0 when either side was never
\* decoded, under every interleaving of bid, ask and event-queue updates; the
\* value stays with the event until it is handled.
SpreadStep ==
    /\ clock' > clock =>
         /\ pending' # None => pending'[1].spread = SeenSpread
         /\ accepted' # accepted => Last(accepted').spread = SeenSpread
    /\ (clock' = clock /\ accepted' # accepted) =>
         Last(accepted').spread = pending[1].spread
    /\ handled' # handled => Last(handled').spread = Head(queue).spread
SpreadOfEvent == [][SpreadStep]_vars

\* Three events were emitted: one before both sides were known, one at bid 3
\* and ask 5, one after the bid moved to 4.
SpreadOfEventWitness ==
    /\ Len(handled) = 3
    /\ <<handled[1].spread, handled[2].spread, handled[3].spread>> = <<0, 2, 1>>
    /\ seen_bid = Some(4)
    /\ seen_ask = Some(5)

\* The record the header of an element of FillInputs names as last written;
\* the capacity is the number of whole records the buffer holds.
LastWritten(in) == in.nodes[((in.head + in.count - 1) % Len(in.nodes)) + 1]

\* C13 (decode_last_fill), as stated: on a buffer at least as long as the
\* header the result is None if count = 0 or capacity = 0 or the fill flag of
\* the last written record is unset, and Some with size > 0 otherwise.
DecodeLastFillAsStated ==
    upc = "ret_fill" =>
        IF \/ Len(input.nodes) = 0
           \/ input.count = 0
           \/ LastWritten(input).flags % 2 = 0
        THEN ret[1].fill = None
        ELSE ret[1].fill # None /\ ret[1].fill[1].size > 0

\* C13 (decode_last_fill), amended: the result is None if count = 0 or
\* capacity = 0 or the fill flag of the last written record is unset or its
\* quantity released is zero, and Some with size > 0 otherwise.
DecodeLastFill ==
    upc = "ret_fill" =>
        IF \/ Len(input.nodes) = 0
           \/ input.count = 0
           \/ LastWritten(input).flags % 2 = 0
           \/ LastWritten(input).released = 0
        THEN ret[1].fill = None
        ELSE ret[1].fill # None /\ ret[1].fill[1].size > 0

\* The last written record is a fill that released nothing: None.
DecodeLastFillWitness ==
    /\ upc = "ret_fill"
    /\ Len(input.nodes) = 2
    /\ input.count = 1
    /\ LastWritten(input).flags = 5
    /\ LastWritten(input).released = 0
    /\ ret[1].fill = None

\* C14 (short buffers), as stated: on every buffer shorter than the
\* event-queue header both decoders return None and read nothing outside the
\* buffer.
ShortBuffersAsStated ==
    upc = "ret_short" =>
        /\ ret[1].fill = None
        /\ ret[1].price = None
        /\ \A r \in ret[1].reads : 0 <= r[1] /\ r[1] <= r[2] /\ r[2] <= input.len

\* C14 (short buffers), amended: on every buffer shorter than the event-queue
\* header decode_last_fill returns None; decode_best_price returns None when
\* the buffer is shorter than the 8 bytes of the price lot or the price lot is
\* zero, and Some otherwise; neither reads outside the buffer.
ShortBuffers ==
    upc = "ret_short" =>
        /\ ret[1].fill = None
        /\ ret[1].price = None <=> (input.len < 8 \/ input.byte = 0)
        /\ \A r \in ret[1].reads : 0 <= r[1] /\ r[1] <= r[2] /\ r[2] <= input.len

\* Seven bytes with a non-zero leading byte: both decoders return None and
\* nothing was read.
ShortBuffersWitness ==
    /\ upc = "ret_short"
    /\ input.len = 7
    /\ input.byte = 255
    /\ ret[1].fill = None
    /\ ret[1].price = None
    /\ ret[1].reads = {}

\* C15 (Strategy dead zone): with threshold 0.55 the signal is Buy exactly
\* when the probability is above 0.55, Sell exactly when it is below 0.45 and
\* None on [0.45, 0.55], both bounds included; never Buy and Sell for one
\* probability.
DeadZone ==
    upc = "ret_signal" =>
        /\ ret[1] = Some("Buy") <=> input > 5500
        /\ ret[1] = Some("Sell") <=> input < 4500
        /\ ret[1] = None <=> (4500 <= input /\ input <= 5500)
        /\ input = 5600 => ret[1] = Some("Buy")
        /\ input = 4400 => ret[1] = Some("Sell")

\* The probability is exactly the threshold: no signal.
DeadZoneWitness ==
    /\ upc = "ret_signal"
    /\ input = 5500
    /\ ret[1] = None

\* C16 (ModelParameters length): in every reachable state the parameter vector
\* of the live model has length 0 or feature_count + 1, the first element
\* being the bias.
ParamsLength == Len(params) \in {0, FeatureCount + 1}

\* C17 (Book-side updates): a bid-side or ask-side update emits no TradeEvent
\* and replaces only the cached price of its own side, and only when its
\* price decodes; a failed decode leaves both cached prices as they are; an
\* event-queue update never changes the cached best bid or best ask.
BookSideStep ==
    /\ (seen_bid' # seen_bid \/ seen_ask' # seen_ask) =>
         /\ fpc' = "next"
         /\ UNCHANGED <<clock, queue, accepted, pending>>
    /\ seen_bid' # seen_bid => best_bid' = seen_bid' /\ best_ask' = best_ask
    /\ seen_ask' # seen_ask => best_ask' = seen_ask' /\ best_bid' = best_bid
    /\ (seen_bid' = seen_bid /\ seen_ask' = seen_ask) =>
         UNCHANGED <<best_bid, best_ask>>
    /\ clock' > clock => UNCHANGED <<best_bid, best_ask>>
BookSideUpdates ==
    /\ [][BookSideStep]_vars
    /\ [](best_bid = seen_bid /\ best_ask = seen_ask)

\* The bid was 3 when the first event was emitted and has been replaced by 4
\* since; the ask is still 5 and failed decodes came in between.
BookSideUpdatesWitness ==
    /\ best_bid = Some(4)
    /\ best_ask = Some(5)
    /\ Len(accepted) = 2
    /\ accepted[1].spread = 2
    /\ accepted[2].spread = 1

\* The position of the first event `e` in a log of lock and call events, 0
\* when it is absent.
Position(log, e) ==
    IF \E i \in 1..Len(log) : log[i] = e
    THEN CHOOSE i \in 1..Len(log) : log[i] = e /\ \A j \in 1..(i - 1) : log[j] # e
    ELSE 0

\* C18 (Retrain, then signal): in a handle_trade step whose retrain succeeds
\* the observation is appended and the previous features and price updated,
\* the model is trained on a snapshot of the whole dataset, persisted and made
\* the Strategy's model, last_trained becomes the snapshot length, and only
\* then the signal is computed: with the new model.  At the end of the step
\* last_trained = dataset.len().
RetrainThenSignalStep ==
    (Len(retrains') > Len(retrains) /\ Last(retrains').res = "ok") =>
        LET trade == Head(queue)
        IN /\ handled' = Append(handled, trade)
           /\ Len(dataset') = Len(dataset) + 1
           /\ Last(dataset')[1] = last_features[1]
           /\ last_features' = Some(features_of(trade))
           /\ last_price' = Some(trade.price)
           /\ Last(retrains').n = Len(dataset')
           /\ params' \in TrainedParams
           /\ model_file' = Some(params')
           /\ last_trained' = Len(dataset')
           /\ last_signal' = Some(generate_signal(params', features_of(trade)))
           /\ 0 < Position(lock_log', Ev("call", "train"))
           /\ Position(lock_log', Ev("call", "train"))
                < Position(lock_log', Ev("call", "save"))
RetrainThenSignal == [][RetrainThenSignalStep]_vars

\* The retrain of the third event produced a model that says Sell at price 2,
\* where the zero model gives no signal and the loaded one Buy.
RetrainThenSignalWitness ==
    /\ paper_mode
    /\ Len(handled) = 3
    /\ Last(handled).price = 2
    /\ Last(retrains).res = "ok"
    /\ last_trained = Len(dataset)
    /\ params = <<-3, 0, 0>>
    /\ last_signal = Some(Some("Sell"))
    /\ generate_signal(ZeroParams, features_of(Last(handled))) = None
    /\ generate_signal(<<-9, 6, 0>>, features_of(Last(handled))) = Some("Buy")

\* The locks held just before position i of a log of lock and call events.
HeldBefore(log, i) ==
    { l \in {"dataset", "pnl"} :
        \E j \in 1..(i - 1) :
            /\ log[j] = Ev("lock", l)
            /\ \A k \in (j + 1)..(i - 1) : log[k] # Ev("unlock", l) }

\* C19 (Lock discipline): the dataset lock and the P&L lock are each held for
\* one read or one append/update only and are free when training,
\* persistence, a quote, a swap or the confirmation wait begins and when the
\* step ends; no lock is taken while one is held, so train_model finds the
\* dataset lock released by handle_trade.
LockDiscipline ==
    /\ \A i \in 1..Len(lock_log) :
         /\ lock_log[i].op \in {"call", "lock"} => HeldBefore(lock_log, i) = {}
         /\ lock_log[i].op = "unlock" =>
              HeldBefore(lock_log, i) = {lock_log[i].on}
         /\ lock_log[i].op = "lock" =>
              /\ i < Len(lock_log)
              /\ lock_log[i + 1] = Ev("unlock", lock_log[i].on)
    /\ HeldBefore(lock_log, Len(lock_log) + 1) = {}

\* A step that appended an observation, found the retrain due, took the
\* snapshot, trained and saved.
LockDisciplineWitness ==
    /\ paper_mode
    /\ retrains # <<>>
    /\ lock_log = Locked("dataset") \o Locked("dataset") \o Locked("dataset")
                    \o Called("train") \o Called("save")

\* C20 (Last written record): on a buffer at least as long as the header, with
\* capacity >= 1 and count >= 1, decode_last_fill reads the record at index
\* (head + count - 1) mod capacity, which lies wholly inside the buffer, for
\* every head and count, head >= capacity included; the result is None only
\* because that record is no fill or released nothing, never because of its
\* offset.
LastWrittenRecord ==
    (upc = "ret_fill" /\ Len(input.nodes) >= 1 /\ input.count >= 1) =>
        LET rec == LastWritten(input)
            idx == (input.head + input.count - 1) % Len(input.nodes)
            off == HEADER_LEN + idx * NODE_SIZE
            fill == ret[1].fill
        IN /\ <<off, off + NODE_SIZE>> \in ret[1].reads
           /\ \A r \in ret[1].reads : 0 <= r[1] /\ r[1] <= r[2] /\ r[2] <= ret[1].len
           /\ fill = None <=> (rec.flags % 2 = 0 \/ rec.released = 0)
           /\ fill # None =>
                /\ fill[1].size = rec.released
                /\ fill[1].price = rec.paid \div (100 * rec.released)
                /\ fill[1].side = IF (rec.flags \div 4) % 2 = 1 THEN "bid" ELSE "ask"

\* head = 70001 is beyond the capacity 2 and count = 2: the index wraps to
\* slot 0, a bid-side fill, while slot 1 holds an ask-side fill of another size.
LastWrittenRecordWitness ==
    /\ upc = "ret_fill"
    /\ input.head = 70001
    /\ input.count = 2
    /\ input.tail = NODE_SIZE - 1
    /\ input.nodes = <<[flags |-> 5, released |-> 2, paid |-> 200],
                       [flags |-> 1, released |-> 1, paid |-> 200]>>
    /\ ret[1].fill = Some([price |-> 1, size |-> 2, side |-> "bid"])

\* s is an initial segment of t.
IsPrefix(s, t) == Len(s) <= Len(t) /\ SubSeq(t, 1, Len(s)) = s

\* C21 (Dataset and checkpoint): every step leaves the observations the
\* dataset held in place and at most appends to them, so its length never
\* decreases; and 0 <= last_trained <= dataset.len() in every state, so
\* dataset.len() - last_trained of the retrain check never underflows.
DatasetMonotoneStep == IsPrefix(dataset, dataset')
DatasetMonotone ==
    /\ [][DatasetMonotoneStep]_vars
    /\ [](0 <= last_trained /\ last_trained <= Len(dataset))

\* A retrain set last_trained to the whole dataset, and an observation with
\* another label was appended after it.
DatasetMonotoneWitness ==
    /\ paper_mode
    /\ last_trained = BatchThreshold
    /\ Len(dataset) = BatchThreshold + 1
    /\ dataset[Len(dataset)][2] # dataset[1][2]
    /\ Len(handled) = Len(dataset) + 1

\* Feature vectors <<price, size, spread>> the zero model is asked about.
FeatureSamples == {<<p, s, d>> : p \in 0..3, s \in 1..2, d \in {-2, 0, 2}}

\* C22 (No model file): load of a missing file gives the zero parameter
\* vector, on which predict is exactly 0.5 and generate_signal None for every
\* feature vector; as long as no retrain has succeeded since such a start (the
\* model file is still missing) the Strategy holds that vector and every
\* signal computed was None; live mode never retrains, so a live run started
\* without a model file calls execute_order never and its P&L stays 0.
NoModelFileStep == ~paper_mode => model_file' = model_file /\ params' = params
NoModelFileState ==
    /\ load(None) = <<0, 0, 0>>
    /\ \A f \in FeatureSamples :
         /\ predict(load(None), f) = One \div 2
         /\ generate_signal(load(None), f) = None
    /\ model_file = None =>
         /\ params = <<0, 0, 0>>
         /\ last_signal \in {None, Some(None)}
         /\ handled # <<>> /\ run_result \notin {"err_train", "err_save"} =>
              last_signal = Some(None)
    /\ (~paper_mode /\ model_file = None) =>
         /\ retrains = <<>>
         /\ exec = None
         /\ pnl = 0
         /\ reported \in {None, Some(0)}
NoModelFile == [][NoModelFileStep]_vars /\ []NoModelFileState

\* A live run started without a model file handled three fills of different
\* prices, then ended and reported a P&L of 0 without any order.
NoModelFileWitness ==
    /\ ~paper_mode
    /\ model_file = None
    /\ Len(handled) = 3
    /\ handled[1].price # handled[2].price
    /\ last_signal = Some(None)
    /\ exec = None
    /\ mpc = "exit_ok"
    /\ reported = Some(0)

\* C23 (Failed retrain): a step whose retrain fails at training or at saving
\* leaves the Strategy's model and last_trained as they were, keeps the
\* observation it appended and the previous features and price it updated,
\* computes no signal and ends the run with that error; the model is replaced
\* and last_trained changed only by a step whose train and save both
\* succeeded.
FailedRetrainStep ==
    /\ (Len(retrains') > Len(retrains) /\
        Last(retrains').res \in {"err_train", "err_save"}) =>
          LET trade == Head(queue)
          IN /\ params' = params
             /\ last_trained' = last_trained
             /\ handled' = Append(handled, trade)
             /\ dataset' = Append(dataset, <<last_features[1],
                                             label_of(trade.price, last_price[1])>>)
             /\ last_features' = Some(features_of(trade))
             /\ last_price' = Some(trade.price)
             /\ Last(retrains').n = Len(dataset')
             /\ last_signal' = last_signal
             /\ exec' = exec
             /\ pnl' = pnl
             /\ run_result' = Last(retrains').res
             /\ model_file' \in {model_file, Some(Truncated)}
             /\ Last(retrains').res = "err_train" => model_file' = model_file
    /\ (params' # params \/ last_trained' # last_trained) =>
          /\ Len(retrains') > Len(retrains)
          /\ Last(retrains').res = "ok"
          /\ model_file' = Some(params')
          /\ last_trained' = Len(dataset')
FailedRetrain == [][FailedRetrainStep]_vars

\* A paper run started from a model file: the save of its first retrain failed
\* after the file was truncated.  The loaded model and the checkpoint 0 are
\* still in place, the observations and the previous trade are kept.
FailedRetrainWitness ==
    /\ run_result = "err_save"
    /\ retrains = <<[n |-> BatchThreshold, res |-> "err_save"]>>
    /\ model_file = Some(Truncated)
    /\ params = <<-9, 6, 0>>
    /\ last_trained = 0
    /\ Len(dataset) = BatchThreshold
    /\ Len(handled) = BatchThreshold + 1
    /\ last_features = Some(features_of(Last(handled)))
    /\ last_price = Some(Last(handled).price)

====
